---- MODULE Spec2Model ----
(***************************************************************************)
(* Model of the bulk sender script (src/unnamed/part_000): the yargs       *)
(* validation, main()'s pre-flight, the login gate, the per-contact send   *)
(* loop with its try/catch, and the helpers the loop awaits                *)
(* (waitForAny, openChat, attachFiles, typeMultiline, clickSend).          *)
(*                                                                         *)
(* Every `await` of the script is a point where the browser (the           *)
(* environment) may act, so each awaited operation is split at its waits.  *)
(* A puppeteer call either resolves or rejects; which one is the           *)
(* environment's choice.                                                   *)
(***************************************************************************)
EXTENDS Integers, Sequences, FiniteSets, TLC

\* ------------------------------------------------------------------ bounds
\* Largest number of contacts the loaded list holds.
MaxContacts == 2
\* Longest raw cell on which normalizePhone is applied exhaustively.
MaxRawLen == 3
\* Largest number of rows of the sheets on which readExcelPhones is applied.
MaxRows == 3
\* Longest message text on which typeMultiline is applied exhaustively.
MaxTextLen == 4
\* Math.random() is drawn from { k / RandDenom : k \in 0 .. RandDenom-1 }.
RandDenom == 2

\* ------------------------------------------------------- program constants
DefaultDelayMin == 2            \* argv.delayMin || 2
DefaultDelayMax == 5            \* argv.delayMax || 5
MsPerSecond == 1000             \* (...) * 1000
BackoffBaseMs == 1500           \* sleep(1500 + Math.random() * 2000)
BackoffJitterMs == 2000
ReadyTimeout == 0               \* ensureLoggedIn: { timeout: 0 }
OpenChatTimeout == 30000        \* openChat: { timeout: 30000 }
ComposerTimeout == 15000        \* typeMultiline: { timeout: 15000 }
SendTimeout == 10000            \* clickSend: { timeout: 10000 }
ClipTimeout == 10000            \* attachFiles: attach button
\* Faulty variant of FileInputTimeout: { timeout: 0 }, which puppeteer reads
\* as "wait without limit". C6 does not survive it.
FileInputWaitsForever == 0 * 10000
FileInputTimeout == 10000       \* attachFiles: file input
PreviewTimeout == 30000         \* attachFiles: preview
ReadySelectors == 3             \* number of selectors raced by each wait
ComposerSelectors == 4
SendSelectors == 3
ClipSelectors == 3
PreviewSelectors == 3

\* ------------------------------------------------------------ input domain
\* A JavaScript `undefined` option value.
Undefined == "<undefined>"

\* Delay options are numbers of seconds; the model writes them in units of
\* half a millisecond so that Math.round has something to round.
UnitsPerSecond == 2 * MsPerSecond

\* The files that exist on disk, with their contents (text files only).
FileContent ==
  [p \in {"/cwd/contacts.xlsx", "/cwd/message.txt", "/cwd/empty.txt",
          "/cwd/promo.jpg", "/cwd/demo.mp4"} |->
     CASE p = "/cwd/message.txt" -> "Hello\nthere"
       [] p = "/cwd/empty.txt"   -> ""
       [] OTHER                  -> "<binary>"]

\* path.resolve(process.cwd(), p) for the relative paths of the model.
Resolved ==
  [p \in {"contacts.xlsx", "nofile.xlsx", "message.txt", "empty.txt",
          "promo.jpg", "demo.mp4", "nofile.mp4", "nofile.txt", "nofile.jpg"} |->
     CASE p = "contacts.xlsx" -> "/cwd/contacts.xlsx"
       [] p = "nofile.xlsx"   -> "/cwd/nofile.xlsx"
       [] p = "message.txt"   -> "/cwd/message.txt"
       [] p = "empty.txt"     -> "/cwd/empty.txt"
       [] p = "promo.jpg"     -> "/cwd/promo.jpg"
       [] p = "demo.mp4"      -> "/cwd/demo.mp4"
       [] p = "nofile.txt"    -> "/cwd/nofile.txt"
       [] p = "nofile.jpg"    -> "/cwd/nofile.jpg"
       [] OTHER               -> "/cwd/nofile.mp4"]

\* JavaScript truthiness of an optional string.
Truthy(s) == s # Undefined /\ s # ""

\* ------------------------------------------------------------ pure helpers
ensureAbs(p) == IF Truthy(p) THEN Resolved[p] ELSE Undefined

fileExists(p) == Truthy(p) /\ p \in DOMAIN FileContent

\* The yargs .check() callback: TRUE when the arguments are accepted.
check(args) ==
  /\ ~(~Truthy(args.message) /\ ~Truthy(args.messageFile)
         /\ ~Truthy(args.image) /\ ~Truthy(args.video))
  /\ ~(Truthy(args.message) /\ Truthy(args.messageFile))
  /\ ~(args.delayMin > args.delayMax)

\* readMessage: the text, or "<throws>" when the message file is missing.
readMessage(args) ==
  IF Truthy(args.message) THEN args.message
  ELSE IF Truthy(args.messageFile)
       THEN IF fileExists(ensureAbs(args.messageFile))
            THEN FileContent[ensureAbs(args.messageFile)]
            ELSE "<throws>"
       ELSE ""

\* Math.round(n / d) for d > 0: the nearest integer, halves rounded up.
MathRound(n, d) == (2 * n + d) \div (2 * d)

\* Math.round((seconds || dflt) * 1000), seconds given in UnitsPerSecond.
toMs(seconds, dflt) ==
  MathRound((IF seconds = 0 THEN dflt * UnitsPerSecond ELSE seconds) * MsPerSecond,
            UnitsPerSecond)

\* Math.round(randomBetween(min, max)) with Math.random() = k / RandDenom.
randomBetween(min, max, k) == MathRound(min * RandDenom + k * (max - min), RandDenom)

\* A backoff that is the jitter alone.
backoffJitterOnly(k) == (k * BackoffJitterMs) \div RandDenom

\* 1500 + Math.random() * 2000, as the integer delay setTimeout uses.
backoffMs(k) == BackoffBaseMs + (k * BackoffJitterMs) \div RandDenom

\* ------------------------------------------------- strings as characters
\* Cell values, identifiers and typed text are sequences of one-character
\* strings, so that the regular expressions and split can be computed.
\* What normalizePhone returns for "skip this row".
Null == <<"<null>">>

\* str.startsWith(prefix)
StartsWith(str, prefix) ==
  Len(prefix) <= Len(str) /\ SubSeq(str, 1, Len(prefix)) = prefix

\* The characters the class [^\\d+] of line 70 does not match, that is the
\* ones replace() keeps: a backslash, the letter d and the plus sign.
KeptChars == {"\\", "d", "+"}
IsKept(c) == c \in KeptChars
\* The characters /\\+/g of line 72 leaves: all but the backslash.
NotBackslash(c) == c # "\\"

\* digits.length <= 11
LocalMaxLen == 11

\* normalizePhone(raw, countryCode); an undefined or empty raw is <<>>.
normalizePhone(raw, countryCode) ==
  IF raw = <<>> THEN Null
  ELSE LET digits == SelectSeq(raw, IsKept) IN
    IF digits = <<>> THEN Null
    ELSE IF StartsWith(digits, <<"+">>) THEN SelectSeq(digits, NotBackslash)
    ELSE IF countryCode # <<>> /\ ~StartsWith(digits, countryCode)
              /\ Len(digits) <= LocalMaxLen
         THEN countryCode \o digits
         ELSE digits

\* A row of sheet_to_json is the sequence of its <<column, value>> pairs.
HasColumn(row, name) == \E k \in DOMAIN row : row[k][1] = name
Column(row, name) == row[CHOOSE k \in DOMAIN row : row[k][1] = name][2]

\* row.phone ?? row.Phone ?? row.number ?? row.Number ?? Object.values(row)[0]
\* (undefined, for a row without fields, is written <<>>: both are falsy).
selectedCell(row) ==
  IF HasColumn(row, "phone") THEN Column(row, "phone")
  ELSE IF HasColumn(row, "Phone") THEN Column(row, "Phone")
  ELSE IF HasColumn(row, "number") THEN Column(row, "number")
  ELSE IF HasColumn(row, "Number") THEN Column(row, "Number")
  ELSE IF Len(row) > 0 THEN row[1][2]
  ELSE <<>>

\* An insertion into a list: a value already present is added again.
setAddAgain(set, n) == Append(set, n)

\* An insertion that moves a value already present to the end.
setAddMovesToEnd(set, n) == Append(SelectSeq(set, LAMBDA x : x # n), n)

\* numbers.add(n) on a Set kept in insertion order.
setAdd(set, n) == IF \E k \in DOMAIN set : set[k] = n THEN set ELSE Append(set, n)

\* The loop of readExcelPhones over rows[k..], with the Set built so far.
RECURSIVE loadRows(_, _, _, _)
loadRows(rows, k, countryCode, set) ==
  IF k > Len(rows) THEN set
  ELSE LET n == normalizePhone(selectedCell(rows[k]), countryCode) IN
       loadRows(rows, k + 1, countryCode, IF n # Null THEN setAdd(set, n) ELSE set)

\* readExcelPhones, given the rows of the first sheet: Array.from(numbers).
readExcelPhones(rows, countryCode) == loadRows(rows, 1, countryCode, <<>>)

\* String(text).split('\n'), the line being read in `cur`.
RECURSIVE splitFrom(_, _, _)
splitFrom(text, k, cur) ==
  IF k > Len(text) THEN <<cur>>
  ELSE IF text[k] = "\n" THEN <<cur>> \o splitFrom(text, k + 1, <<>>)
  ELSE splitFrom(text, k + 1, Append(cur, text[k]))
split(text) == splitFrom(text, 1, <<>>)

\* A loop that makes the Shift+Enter calls after the last line as well.
RECURSIVE typeLinesTrailing(_, _)
typeLinesTrailing(lines, i) ==
  IF i > Len(lines) THEN <<>>
  ELSE (IF lines[i] # <<>> THEN << <<"type">> \o lines[i] >> ELSE <<>>)
         \o << <<"down", "Shift">>, <<"press", "Enter">>, <<"up", "Shift">> >>
         \o typeLinesTrailing(lines, i + 1)

\* The keyboard calls of typeMultiline's loop from line i on (1-based).
RECURSIVE typeLines(_, _)
typeLines(lines, i) ==
  IF i > Len(lines) THEN <<>>
  ELSE (IF lines[i] # <<>> THEN << <<"type">> \o lines[i] >> ELSE <<>>)
         \o (IF i < Len(lines)
             THEN << <<"down", "Shift">>, <<"press", "Enter">>, <<"up", "Shift">> >>
             ELSE <<>>)
         \o typeLines(lines, i + 1)

\* Every keyboard call typeMultiline makes for a text, in order.
typeKeys(text) == typeLines(split(text), 1)

\* The message texts of the model, as characters.
TextChars(text) ==
  CASE text = "Hi"           -> <<"H", "i">>
    [] text = "Hello\nthere" -> <<"H", "e", "l", "l", "o", "\n", "t", "h", "e", "r", "e">>
    [] OTHER                 -> <<>>

\* The rows of the workbook's first sheet, column "phone": the sheets of the
\* model are the prefixes of this list. Row 3 repeats row 1, row 5 is blank.
RowList ==
  << << <<"phone", <<"+", "1", " ", "5", "5", "5">> >> >>,
     << <<"phone", <<"d", "1", "5", "5", "5">> >> >>,
     << <<"phone", <<"+", "1", "-", "5", "5", "5">> >> >>,
     << <<"phone", <<"+", "d", "4", "4">> >> >>,
     << <<"phone", <<>> >> >>,
     << <<"phone", <<"\\", "7">> >> >> >>

\* ------------------------------------------------------------------- state
VARIABLES
  argv,        \* the parsed command line
  sheet,       \* the rows sheet_to_json returns for the workbook
  pc,          \* where main() is suspended
  msgText, attachments, numbers,   \* main()'s locals after pre-flight
  connected,   \* the browser session is alive
  crashedAt,   \* 1-based position of the job during which it died (0: never)
  minMs, maxMs,
  i,           \* the loop index (0-based, as in the source)
  results,     \* { sent, failed, errors }
  err,         \* the error in flight to the catch clause
  steps,       \* helpers invoked so far in the current job, in order
  attempts,    \* per contact position: how many times its job was started
  history,     \* per finished try-block: [phone, threw, submitted]
  submits,     \* number of activations of the send control
  sels,        \* the pending wait: status of each selector's promise
  elapsed,     \* the pending wait: its timeout has been reached
  timeout,     \* the pending wait: options.timeout
  ret,         \* what waitForAny returned: a selector position, 0 for undefined
  readySeen,   \* a readiness indicator was visible when ensureLoggedIn returned
  chatLoaded,  \* "yes"/"no": a composer indicator was visible when openChat returned
  slept,       \* the delay of the sleep in progress (-1: none)
  summary,     \* the printed final report: <<>> or <<results>>
  launched,    \* puppeteer.launch has been called
  previewSeen, \* "yes"/"no": a preview indicator was visible when attachFiles returned
  sleeps,      \* number of pacing sleeps started in the loop
  keys,        \* the keyboard calls made in the current job, in order
  fin, fout    \* argument and result of the helper applied on its own

vars == <<argv, sheet, pc, msgText, attachments, numbers, connected, crashedAt,
          minMs, maxMs, i, results, err, steps, attempts, history, submits,
          sels, elapsed, timeout, ret, readySeen, chatLoaded, slept, summary,
          launched, previewSeen, sleeps, keys, fin, fout>>

config == <<argv, sheet, msgText, attachments, numbers>>
waitv  == <<sels, elapsed, timeout, ret>>
jobv   == <<minMs, maxMs, i, results, err, steps, attempts, history, submits,
            chatLoaded, slept, summary>>
aux    == <<launched, previewSeen, sleeps, keys>>
pure   == <<fin, fout>>

\* The command lines of the model: every way pre-flight can refuse a run
\* once, and for the runs it accepts every combination of (message or not)
\* and (attachments or not), with the default delays, with zero delays and
\* with a country code.
ArgvCases ==
  { a \in [excel: {"contacts.xlsx", "nofile.xlsx"},
           message: {Undefined, "Hi"},
           messageFile: {Undefined, "empty.txt", "nofile.txt"},
           image: {Undefined, "promo.jpg", "nofile.jpg"},
           video: {Undefined, "demo.mp4", "nofile.mp4"},
           delayMin: {0, DefaultDelayMin * UnitsPerSecond},
           delayMax: {0, DefaultDelayMax * UnitsPerSecond},
           countryCode: {<<>>, <<"9", "1">>}] :
      LET plain == a.message = "Hi" /\ a.messageFile = Undefined
                     /\ a.image = Undefined /\ a.video = Undefined
          defaults == a.delayMin = DefaultDelayMin * UnitsPerSecond
                        /\ a.delayMax = DefaultDelayMax * UnitsPerSecond
                        /\ a.countryCode = <<>>
      IN  /\ (a.excel = "nofile.xlsx" => plain /\ defaults)
          /\ (a.video = "nofile.mp4" => a.message = "Hi" /\ a.image = Undefined
                                          /\ defaults)
          /\ (a.image = "nofile.jpg" => a.message = "Hi" /\ a.video = Undefined
                                          /\ defaults)
          /\ (a.messageFile = "nofile.txt" => a.message = Undefined
                                          /\ a.image = "promo.jpg"
                                          /\ a.video = Undefined /\ defaults)
          /\ (a.video = "demo.mp4" => a.image = "promo.jpg")
          /\ (a.messageFile = "empty.txt" /\ a.message = Undefined =>
                a.image = Undefined)
          /\ (~defaults => plain /\ (a.countryCode = <<>> \/ a.delayMin # 0)) }

\* Everything main() has not touched yet, and no helper applied on its own.
Blank ==
  /\ msgText = "" /\ attachments = <<>> /\ numbers = <<>>
  /\ connected = FALSE /\ crashedAt = 0
  /\ minMs = 0 /\ maxMs = 0
  /\ i = 0
  /\ results = [sent |-> 0, failed |-> 0, errors |-> <<>>]
  /\ err = "" /\ steps = <<>>
  /\ attempts = <<>>
  /\ history = <<>> /\ submits = 0
  /\ sels = <<>> /\ elapsed = FALSE /\ timeout = 0 /\ ret = 0
  /\ readySeen = FALSE /\ chatLoaded = "unknown"
  /\ slept = -1
  /\ summary = <<>>
  /\ launched = FALSE /\ previewSeen = "unknown" /\ sleeps = 0 /\ keys = <<>>

Init ==
  /\ argv \in ArgvCases
  /\ sheet \in { SubSeq(RowList, 1, n) : n \in {0, MaxContacts + 1} }
  /\ pc = "start"
  /\ Blank
  /\ fin = <<>> /\ fout = <<>>

\* ------------------------------------------------------------- pre-flight
\* The attachments main() collects: the image, then the video.
collectAttachments(args) ==
  (IF Truthy(args.image) THEN <<ensureAbs(args.image)>> ELSE <<>>)
    \o (IF Truthy(args.video) THEN <<ensureAbs(args.video)>> ELSE <<>>)

\* Pre-flight that does not look for the attachments on disk.
preflightNoAttachmentCheck(args, loaded) ==
  /\ check(args)
  /\ fileExists(ensureAbs(args.excel))
  /\ readMessage(args) # "<throws>"
  /\ Len(loaded) > 0

\* TRUE when yargs and main() let the run reach puppeteer.launch.
preflightOk(args, loaded) ==
  /\ check(args)
  /\ fileExists(ensureAbs(args.excel))
  /\ readMessage(args) # "<throws>"
  /\ (Truthy(args.image) => fileExists(ensureAbs(args.image)))
  /\ (Truthy(args.video) => fileExists(ensureAbs(args.video)))
  /\ Len(loaded) > 0

\* yargs .check, then main() up to the "Loaded n unique numbers" line.
Preflight ==
  /\ pc = "start"
  /\ IF preflightOk(argv, readExcelPhones(sheet, argv.countryCode))
     THEN /\ pc' = "launch"
          /\ msgText' = readMessage(argv)
          /\ attachments' = collectAttachments(argv)
          /\ numbers' = readExcelPhones(sheet, argv.countryCode)
          /\ attempts' = [k \in 1 .. Len(numbers') |-> 0]
     ELSE /\ pc' = "exit1"
          /\ UNCHANGED <<msgText, attachments, numbers, attempts>>
  /\ UNCHANGED <<argv, sheet, connected, crashedAt, minMs, maxMs, i, results, err,
                 steps, history, submits, waitv, readySeen, chatLoaded, slept,
                 summary>>
  /\ UNCHANGED <<aux, pure>>

\* ---------------------------------------------------------------- waiting
\* Where main() is suspended in a Promise.race of waitForAny, and where it is
\* once that race has settled.
RacePcs == {"readyWait", "openWait", "clipWait", "previewWait", "typeWait", "sendWait"}
WaitPcs == RacePcs \cup {"inputWait"}
AfterRace(p) ==
  CASE p = "readyWait"   -> "readyRet"
    [] p = "openWait"    -> "openRet"
    [] p = "clipWait"    -> "clipRet"
    [] p = "previewWait" -> "previewRet"
    [] p = "typeWait"    -> "typeRet"
    [] p = "sendWait"    -> "sendRet"
\* Inside the try block of an iteration.
TryPcs == {"openChat", "openWait", "openRet", "clipWait", "clipRet", "inputWait",
           "previewWait", "previewRet", "typeWait", "typeRet", "sendWait", "sendRet"}
\* Inside an iteration of the loop.
JobPcs == TryPcs \cup {"sent", "catch", "sleeping"}

\* The promises a wait over n selectors creates, and the cleared wait.
StartWait(n, t) ==
  /\ sels' = [k \in 1 .. n |-> "pending"]
  /\ elapsed' = FALSE
  /\ timeout' = t
  /\ ret' = 0
NoWait == sels' = <<>> /\ elapsed' = FALSE /\ timeout' = 0 /\ ret' = 0

AllSettled(s) == \A k \in DOMAIN s : s[k] # "pending"
AnyFound(s) == \E k \in DOMAIN s : s[k] = "found"
\* result.find(Boolean) over the array Promise.all resolves with:
\* the position of the first selector that was found, 0 for undefined.
FirstFound(s) ==
  IF AnyFound(s) THEN CHOOSE k \in DOMAIN s :
                        s[k] = "found" /\ \A j \in 1 .. k - 1 : s[j] # "found"
  ELSE 0

\* The values waitForAny can return now. Promise.all settles the race once
\* every selector promise has settled; the sleep settles it with undefined
\* once the timeout has been reached.
waitForAny(s, e) ==
  (IF AllSettled(s) THEN {FirstFound(s)} ELSE {}) \cup (IF e THEN {0} ELSE {})

\* The race of waitForAny settles and the function returns to its caller.
WaitForAnyReturns ==
  /\ pc \in RacePcs
  /\ \E r \in waitForAny(sels, elapsed) : ret' = r
  /\ pc' = AfterRace(pc)
  /\ UNCHANGED <<config, connected, crashedAt, jobv, sels, elapsed, timeout, readySeen>>
  /\ UNCHANGED <<aux, pure>>

\* The browser shows an element matching selector k.
SelectorResolves(k) ==
  /\ pc \in WaitPcs /\ connected /\ ~elapsed
  /\ k \in DOMAIN sels /\ sels[k] = "pending"
  /\ sels' = [sels EXCEPT ![k] = "found"]
  /\ UNCHANGED <<config, pc, connected, crashedAt, jobv, elapsed, timeout, ret, readySeen>>
  /\ UNCHANGED <<aux, pure>>

\* options.timeout milliseconds have passed since the wait began
\* (sleep(options.timeout || 0) is due at once when the timeout is 0).
TimeoutElapses ==
  /\ pc \in WaitPcs /\ ~elapsed /\ ~AllSettled(sels)
  /\ elapsed' = TRUE
  /\ UNCHANGED <<config, pc, connected, crashedAt, jobv, sels, timeout, ret, readySeen>>
  /\ UNCHANGED <<aux, pure>>

\* page.waitForSelector(sel, { timeout }) rejects; .catch(() => null).
\* With timeout 0 puppeteer waits without limit.
SelectorTimesOut(k) ==
  /\ pc \in WaitPcs /\ elapsed /\ timeout > 0
  /\ k \in DOMAIN sels /\ sels[k] = "pending"
  /\ sels' = [sels EXCEPT ![k] = "null"]
  /\ UNCHANGED <<config, pc, connected, crashedAt, jobv, elapsed, timeout, ret, readySeen>>
  /\ UNCHANGED <<aux, pure>>

\* The browser process dies or disconnects during a job: every pending
\* puppeteer promise rejects, and so does every later puppeteer call.
Crash ==
  /\ pc \in TryPcs /\ connected
  /\ connected' = FALSE
  /\ crashedAt' = i + 1
  /\ sels' = [k \in DOMAIN sels |-> IF sels[k] = "pending" THEN "null" ELSE sels[k]]
  /\ UNCHANGED <<config, pc, jobv, elapsed, timeout, ret, readySeen>>
  /\ UNCHANGED <<aux, pure>>

\* How an awaited puppeteer call (goto, click, focus, type, upload) ends.
PuppeteerCall ==
  IF connected THEN {"ok", "PuppeteerError"} ELSE {"Protocol error"}

\* ------------------------------------------------------------- login gate
\* puppeteer.launch and browser.pages(); a rejection reaches main().catch.
Launch ==
  /\ pc = "launch"
  /\ \E ok \in BOOLEAN :
       /\ connected' = ok
       /\ pc' = IF ok THEN "ensureLoggedIn" ELSE "exit1"
  /\ UNCHANGED <<config, crashedAt, jobv, waitv, readySeen>>
  /\ launched' = TRUE
  /\ UNCHANGED <<previewSeen, sleeps, keys, pure>>

\* ensureLoggedIn up to its wait: page.goto, then waitForAny starts.
EnsureLoggedInGoto ==
  /\ pc = "ensureLoggedIn"
  /\ \E r \in PuppeteerCall :
       IF r = "ok"
       THEN pc' = "readyWait" /\ StartWait(ReadySelectors, ReadyTimeout)
       ELSE pc' = "exit1" /\ UNCHANGED waitv
  /\ UNCHANGED <<config, connected, crashedAt, jobv, readySeen>>
  /\ UNCHANGED <<aux, pure>>

\* ensureLoggedIn drops waitForAny's result and returns to main(), which
\* sets up the ledger and the delay bounds (lines 243-245).
EnsureLoggedInReturn ==
  /\ pc = "readyRet"
  /\ readySeen' = AnyFound(sels)
  /\ pc' = "loop"
  /\ results' = [sent |-> 0, failed |-> 0, errors |-> <<>>]
  /\ minMs' = toMs(argv.delayMin, DefaultDelayMin)
  /\ maxMs' = toMs(argv.delayMax, DefaultDelayMax)
  /\ NoWait
  /\ UNCHANGED <<config, connected, crashedAt, i, err, steps, attempts, history,
                 submits, chatLoaded, slept, summary>>
  /\ UNCHANGED <<aux, pure>>

\* --------------------------------------------------------------- the loop
\* The for statement's test, and the progress line of a new iteration.
LoopHead ==
  /\ pc = "loop"
  /\ IF i < Len(numbers)
     THEN /\ pc' = "openChat"
          /\ steps' = <<>>
          /\ chatLoaded' = "unknown"
          /\ previewSeen' = "unknown"
          /\ keys' = <<>>
          /\ attempts' = [attempts EXCEPT ![i + 1] = @ + 1]
     ELSE /\ pc' = "report"
          /\ UNCHANGED <<steps, attempts, chatLoaded, previewSeen, keys>>
  /\ UNCHANGED <<config, connected, crashedAt, minMs, maxMs, i, results, err,
                 history, submits, waitv, readySeen, slept, summary>>
  /\ UNCHANGED <<launched, sleeps, pure>>

\* Faulty variant of Throw: the exception is not caught per contact and
\* reaches main().catch. C1 does not survive it.
ThrowEscapes(e) ==
  /\ pc' = "exit1"
  /\ err' = e
  /\ history' = Append(history, [phone |-> numbers[i + 1], threw |-> TRUE,
                                 submitted |-> FALSE])
  /\ NoWait

\* A helper throws inside the try block: control goes to the catch clause.
Throw(e) ==
  /\ pc' = "catch"
  /\ err' = e
  /\ history' = Append(history, [phone |-> numbers[i + 1], threw |-> TRUE,
                                 submitted |-> FALSE])
  /\ NoWait

\* The try block's helpers have all returned without an exception.
Completed(sub) ==
  /\ pc' = "sent"
  /\ history' = Append(history, [phone |-> numbers[i + 1], threw |-> FALSE,
                                 submitted |-> sub])
  /\ NoWait

\* main() calls typeMultiline, which starts its wait for the composer.
CallTypeMultiline ==
  /\ pc' = "typeWait"
  /\ steps' = Append(steps, "typeMultiline")
  /\ StartWait(ComposerSelectors, ComposerTimeout)

\* main() calls clickSend, which starts its wait for the send control.
CallClickSend ==
  /\ pc' = "sendWait"
  /\ steps' = Append(steps, "clickSend")
  /\ StartWait(SendSelectors, SendTimeout)

\* main() calls attachFiles with a non-empty list: wait for the clip.
CallAttachFiles ==
  /\ pc' = "clipWait"
  /\ steps' = Append(steps, "attachFiles")
  /\ StartWait(ClipSelectors, ClipTimeout)

\* openChat up to its wait: goto, waitForSelector('body'), waitForFunction.
OpenChatNavigate ==
  /\ pc = "openChat"
  /\ steps' = Append(steps, "openChat")
  /\ \E r \in PuppeteerCall :
       IF r = "ok"
       THEN /\ pc' = "openWait"
            /\ StartWait(ComposerSelectors, OpenChatTimeout)
            /\ UNCHANGED <<err, history>>
       ELSE Throw(r)
  /\ UNCHANGED <<config, connected, crashedAt, minMs, maxMs, i, results, attempts,
                 submits, readySeen, chatLoaded, slept, summary>>
  /\ UNCHANGED <<aux, pure>>

\* Faulty variant of AfterOpenChat: the else branch does not test msgText.
\* C8 does not survive it.
AfterOpenChatUnguarded ==
  IF Len(attachments) > 0
  THEN CallAttachFiles /\ UNCHANGED <<err, history>>
  ELSE CallTypeMultiline /\ UNCHANGED <<err, history>>

\* What main() does once openChat has returned (lines 254-265).
AfterOpenChat ==
  IF Len(attachments) > 0
  THEN CallAttachFiles /\ UNCHANGED <<err, history>>
  ELSE IF Truthy(msgText)
       THEN CallTypeMultiline /\ UNCHANGED <<err, history>>
       ELSE Completed(FALSE) /\ UNCHANGED <<err, steps>>

\* What main() does once attachFiles has returned (lines 256-259).
AfterAttachFiles ==
  IF Truthy(msgText) THEN CallTypeMultiline ELSE CallClickSend

\* openChat drops waitForAny's result and returns to main().
OpenChatReturn ==
  /\ pc = "openRet"
  /\ chatLoaded' = IF AnyFound(sels) THEN "yes" ELSE "no"
  /\ AfterOpenChat
  /\ UNCHANGED <<config, connected, crashedAt, minMs, maxMs, i, results, attempts,
                 submits, readySeen, slept, summary>>
  /\ UNCHANGED <<aux, pure>>

\* attachFiles after the clip wait: throw, or click and wait for the input.
AttachClipReturn ==
  /\ pc = "clipRet"
  /\ IF ret = 0
     THEN Throw("Attach button not found")
     ELSE \E c \in PuppeteerCall :
            IF c = "ok"
            THEN /\ pc' = "inputWait"
                 /\ StartWait(1, FileInputTimeout)
                 /\ UNCHANGED <<err, history>>
            ELSE Throw(c)
  /\ UNCHANGED <<config, connected, crashedAt, minMs, maxMs, i, results, attempts,
                 submits, readySeen, chatLoaded, slept, summary, steps>>
  /\ UNCHANGED <<aux, pure>>

\* attachFiles: page.waitForSelector(input, { timeout: 10000 }) settles;
\* a rejection propagates, a handle is used for uploadFile.
AttachInputReturn ==
  /\ pc = "inputWait"
  /\ AllSettled(sels)
  /\ IF sels[1] = "found"
     THEN \E c \in PuppeteerCall :
            IF c = "ok"
            THEN /\ pc' = "previewWait"
                 /\ StartWait(PreviewSelectors, PreviewTimeout)
                 /\ UNCHANGED <<err, history>>
            ELSE Throw(c)
     ELSE Throw(IF connected THEN "PuppeteerError" ELSE "Protocol error")
  /\ UNCHANGED <<config, connected, crashedAt, minMs, maxMs, i, results, attempts,
                 submits, readySeen, chatLoaded, slept, summary, steps>>
  /\ UNCHANGED <<aux, pure>>

\* attachFiles drops the preview wait's result and returns to main().
AttachPreviewReturn ==
  /\ pc = "previewRet"
  /\ AfterAttachFiles
  /\ UNCHANGED <<config, connected, crashedAt, minMs, maxMs, i, results, attempts,
                 submits, readySeen, chatLoaded, slept, summary, err, history>>
  /\ previewSeen' = IF AnyFound(sels) THEN "yes" ELSE "no"
  /\ UNCHANGED <<launched, sleeps, keys, pure>>

\* typeMultiline after the composer wait: throw, or focus and type, after
\* which main() calls clickSend. A keyboard call that rejects ends the typing
\* where it is.
TypeMultilineReturn ==
  /\ pc = "typeRet"
  /\ IF ret = 0
     THEN Throw("Composer not found") /\ UNCHANGED <<steps, keys>>
     ELSE \E c \in PuppeteerCall :
            IF c = "ok"
            THEN /\ CallClickSend
                 /\ keys' = typeKeys(TextChars(msgText))
                 /\ UNCHANGED <<err, history>>
            ELSE /\ Throw(c)
                 /\ \E n \in 0 .. Len(typeKeys(TextChars(msgText))) :
                      keys' = SubSeq(typeKeys(TextChars(msgText)), 1, n)
                 /\ UNCHANGED steps
  /\ UNCHANGED <<config, connected, crashedAt, minMs, maxMs, i, results, attempts,
                 submits, readySeen, chatLoaded, slept, summary>>
  /\ UNCHANGED <<launched, previewSeen, sleeps, pure>>

\* clickSend after the send wait: throw, or click the control.
ClickSendReturn ==
  /\ pc = "sendRet"
  /\ IF ret = 0
     THEN Throw("Send button not found") /\ UNCHANGED submits
     ELSE \E c \in PuppeteerCall :
            IF c = "ok"
            THEN /\ Completed(TRUE)
                 /\ submits' = submits + 1
                 /\ UNCHANGED err
            ELSE Throw(c) /\ UNCHANGED submits
  /\ UNCHANGED <<config, connected, crashedAt, minMs, maxMs, i, results, attempts,
                 readySeen, chatLoaded, slept, summary, steps>>
  /\ UNCHANGED <<aux, pure>>

\* The ledger after the try block ran to its end (results.sent++).
recordSent(res) == [res EXCEPT !.sent = @ + 1]

\* Faulty variant of recordFailed: the failure is counted but not listed.
\* C2 does not survive it.
recordFailedNoPush(res, phone, e) == [res EXCEPT !.failed = @ + 1]

\* The ledger after the catch clause (results.failed++, errors.push).
recordFailed(res, phone, e) ==
  [res EXCEPT !.failed = @ + 1,
              !.errors = Append(@, [phone |-> phone, error |-> e])]

\* Lines 267-270: count the send, draw the delay and start sleeping.
Sent ==
  /\ pc = "sent"
  /\ results' = recordSent(results)
  /\ \E k \in 0 .. RandDenom - 1 : slept' = randomBetween(minMs, maxMs, k)
  /\ pc' = "sleeping"
  /\ UNCHANGED <<config, connected, crashedAt, minMs, maxMs, i, err, steps, attempts,
                 history, submits, waitv, readySeen, chatLoaded, summary>>
  /\ sleeps' = sleeps + 1
  /\ UNCHANGED <<launched, previewSeen, keys, pure>>

\* Faulty variant of Catch: after the backoff is drawn the same contact is
\* tried again from openChat. C15 does not survive it.
CatchRetries ==
  /\ pc = "catch"
  /\ results' = recordFailed(results, numbers[i + 1], err)
  /\ \E k \in 0 .. RandDenom - 1 : slept' = backoffMs(k)
  /\ pc' = "openChat"
  /\ err' = ""
  /\ UNCHANGED <<config, connected, crashedAt, minMs, maxMs, i, steps, attempts,
                 history, submits, waitv, readySeen, chatLoaded, summary>>
  /\ sleeps' = sleeps + 1
  /\ UNCHANGED <<launched, previewSeen, keys, pure>>

\* Lines 271-277: the catch clause, up to its backoff sleep.
Catch ==
  /\ pc = "catch"
  /\ results' = recordFailed(results, numbers[i + 1], err)
  /\ \E k \in 0 .. RandDenom - 1 : slept' = backoffMs(k)
  /\ pc' = "sleeping"
  /\ err' = ""
  /\ UNCHANGED <<config, connected, crashedAt, minMs, maxMs, i, steps, attempts,
                 history, submits, waitv, readySeen, chatLoaded, summary>>
  /\ sleeps' = sleeps + 1
  /\ UNCHANGED <<launched, previewSeen, keys, pure>>

\* The sleep's timer fires; the for statement increments i.
SleepDone ==
  /\ pc = "sleeping"
  /\ slept' = -1
  /\ i' = i + 1
  /\ pc' = "loop"
  /\ UNCHANGED <<config, connected, crashedAt, minMs, maxMs, results, err, steps,
                 attempts, history, submits, waitv, readySeen, chatLoaded, summary>>
  /\ UNCHANGED <<aux, pure>>

\* Lines 280-288: the final report.
Report ==
  /\ pc = "report"
  /\ summary' = <<results>>
  /\ pc' = "close"
  /\ UNCHANGED <<config, connected, crashedAt, minMs, maxMs, i, results, err, steps,
                 attempts, history, submits, waitv, readySeen, chatLoaded, slept>>
  /\ UNCHANGED <<aux, pure>>

\* browser.close(); main() resolves, or its rejection reaches main().catch.
Close ==
  /\ pc = "close"
  /\ \E ok \in (IF connected THEN {TRUE} ELSE BOOLEAN) :
       pc' = IF ok THEN "exit0" ELSE "exit1"
  /\ connected' = FALSE
  /\ UNCHANGED <<config, crashedAt, jobv, waitv, readySeen>>
  /\ UNCHANGED <<aux, pure>>

\* The steps main() and its timers take on their own.
ProgramStep ==
  \/ Preflight \/ Launch \/ EnsureLoggedInGoto \/ EnsureLoggedInReturn
  \/ LoopHead \/ OpenChatNavigate \/ OpenChatReturn
  \/ AttachClipReturn \/ AttachInputReturn \/ AttachPreviewReturn
  \/ TypeMultilineReturn \/ ClickSendReturn
  \/ Sent \/ Catch \/ SleepDone \/ Report \/ Close
  \/ WaitForAnyReturns \/ TimeoutElapses
  \/ \E k \in 1 .. ComposerSelectors : SelectorTimesOut(k)

\* What the browser may do.
BrowserStep ==
  \/ \E k \in 1 .. ComposerSelectors : SelectorResolves(k)
  \/ Crash

Next == ProgramStep \/ BrowserStep

Spec == Init /\ [][Next]_vars

\* The event loop keeps running main() and firing its timers.
FairSpec == Spec /\ WF_vars(ProgramStep)

\* ================================================================ claims
\* Number of iterations whose ledger update has been made.
LedgerJobs == i + (IF pc = "sleeping" THEN 1 ELSE 0)
\* The run has something to send.
SomethingToSend == Truthy(msgText) \/ Len(attachments) > 0
\* The 1-based positions of the contacts.
Positions == 1 .. Len(numbers)
\* The finished jobs that threw, among the first k.
Thrown(k) == SelectSeq(SubSeq(history, 1, k), LAMBDA h : h.threw)

\* C1: failures never abort the batch. No contact's job is started twice;
\* once the catch clause is entered for a contact, every later contact's job
\* is still started; the batch, once begun, reaches the final report, and
\* when the report is printed every contact's job was started exactly once.
C1_FailuresNeverAbort ==
  /\ [](\A k \in DOMAIN attempts : attempts[k] <= 1)
  /\ [](summary # <<>> => \A k \in Positions : attempts[k] = 1)
  /\ (pc = "catch") ~> (\A k \in Positions : attempts[k] = 1)
  /\ (pc = "loop") ~> (summary # <<>>)

\* C1 witness: the first job failed, the second was still started, and the
\* report was printed.
C1_Witness ==
  /\ summary # <<>> /\ Len(numbers) >= 2
  /\ history[1].threw /\ attempts[2] = 1
  /\ results.failed >= 1

\* C2: ledger accounting when there is something to send. After k recorded
\* jobs, sent + failed = k, sent counts the jobs whose helpers all returned,
\* failed counts those that threw and is the length of the error list, and
\* the error list names exactly the contacts whose jobs threw, in order.
C2_LedgerAccounting ==
  (SomethingToSend /\ pc \notin {"start", "launch", "ensureLoggedIn", "readyWait",
                                 "readyRet"}) =>
    LET k == LedgerJobs IN
      /\ Len(history) >= k
      /\ results.sent + results.failed = k
      /\ results.failed = Len(Thrown(k))
      /\ results.sent = k - Len(Thrown(k))
      /\ Len(results.errors) = results.failed
      /\ \A j \in 1 .. k : history[j].phone = numbers[j]
      /\ \A j \in 1 .. Len(results.errors) :
           results.errors[j].phone = Thrown(k)[j].phone

\* C2 witness: two contacts, the first failed and the second was sent, and
\* the report shows sent = 1, failed = 1 with the record naming contact #1.
C2_Witness ==
  /\ SomethingToSend /\ summary # <<>> /\ Len(numbers) = 2
  /\ summary[1].sent = 1 /\ summary[1].failed = 1
  /\ summary[1].errors[1].phone = numbers[1]
  /\ history[1].threw /\ ~history[2].threw

\* Past the login gate: ensureLoggedIn has returned to main().
PastGate ==
  \/ pc \in JobPcs \cup {"loop", "report", "close", "exit0"}
  \/ pc = "exit1" /\ summary # <<>>

\* C3: the readiness gate. ensureLoggedIn has not returned, and no
\* conversation was opened, unless a readiness indicator had become visible.
C3_ReadinessGate ==
  /\ PastGate => readySeen
  /\ (\E k \in DOMAIN attempts : attempts[k] > 0) => readySeen

\* C4: when openChat's wait ended with no composer indicator having
\* appeared, the job ends Failed and no other helper is invoked for it.
C4_OpenChatFails ==
  (pc \in JobPcs /\ chatLoaded = "no") =>
    /\ steps = <<"openChat">>
    /\ pc \in {"catch", "sleeping"}
    /\ Len(history) = i + 1 /\ history[i + 1].threw

\* C5: first resolution wins. When a bounded waitForAny has returned and
\* one of its indicators had resolved before the timeout, it returned a
\* resolved indicator.
C5_FirstResolutionWins ==
  (pc \in {"openRet", "clipRet", "previewRet", "typeRet", "sendRet"}
     /\ timeout > 0 /\ AnyFound(sels)) =>
    (ret # 0 /\ sels[ret] = "found")

\* C6: past the gate every wait is bounded. Whatever the browser shows,
\* each started job gets its outcome recorded, and the batch reaches the
\* final report and the end of the process.
C6_WaitsAreBounded ==
  /\ (pc \in TryPcs) ~> (pc = "sleeping")
  /\ (pc = "loop") ~> (summary # <<>> /\ pc \in {"exit0", "exit1"})

\* C6 witness: a run with two contacts in which no indicator ever appeared
\* has printed its report and ended.
C6_Witness ==
  /\ pc = "exit0" /\ summary # <<>> /\ Len(numbers) = 2
  /\ ~readySeen /\ crashedAt = 0
  /\ results.failed = 2
  /\ \A j \in 1 .. 2 : results.errors[j].error = "Composer not found"

\* The last finished job ran its try block to the end.
LastJobSent == Len(history) = i + 1 /\ ~history[i + 1].threw

\* C7: a delay slept after a successful send is a number of milliseconds
\* between delayMin and delayMax seconds.
C7_DelayBounds ==
  (pc = "sleeping" /\ LastJobSent) =>
    /\ argv.delayMin * MsPerSecond <= slept * UnitsPerSecond
    /\ slept * UnitsPerSecond <= argv.delayMax * MsPerSecond

\* The helpers a job invokes when none of them throws.
ExpectedSteps ==
  IF Len(attachments) > 0
  THEN <<"openChat", "attachFiles">>
         \o (IF msgText # "" THEN <<"typeMultiline">> ELSE <<>>)
         \o <<"clickSend">>
  ELSE <<"openChat", "typeMultiline", "clickSend">>

IsPrefix(a, b) == Len(a) <= Len(b) /\ a = SubSeq(b, 1, Len(a))
Occurs(x, q) == \E k \in DOMAIN q : q[k] = x

\* C8: the step sequence of a job. With something to send, the helpers are
\* invoked in the order openChat, attachFiles (attachments only),
\* typeMultiline (non-empty body only), clickSend, and a job none of whose
\* helpers threw invoked exactly these; typeMultiline is never invoked with an
\* empty body nor attachFiles with no attachment.
C8_StepSequence ==
  /\ (SomethingToSend /\ pc \in JobPcs) => IsPrefix(steps, ExpectedSteps)
  /\ (SomethingToSend /\ pc = "sent") => steps = ExpectedSteps
  /\ Occurs("typeMultiline", steps) => msgText # ""
  /\ Occurs("attachFiles", steps) => attachments # <<>>

\* C8 witness: a job with attachments and a body ran all four helpers.
C8_Witness ==
  /\ pc = "sent" /\ Len(attachments) > 0 /\ msgText # ""
  /\ steps = <<"openChat", "attachFiles", "typeMultiline", "clickSend">>

\* C9: a skip is neither Sent nor Failed. Sent is counted only for jobs in
\* which the send control was activated, and in a run with nothing to send
\* the skipped jobs change neither count: sent stays 0 and failed counts
\* only the jobs that threw.
C9_SkipNotSent ==
  /\ results.sent <= submits
  /\ ~SomethingToSend =>
       (results.sent = 0 /\ results.failed = Len(Thrown(LedgerJobs)))

\* C10: session-fatal errors propagate. Once the browser has died during
\* the job of a contact, no later contact's job is started, no Failed record
\* is written, and the process does not end with exit code 0.
C10_SessionFatalPropagates ==
  crashedAt # 0 =>
    /\ \A k \in Positions : k > crashedAt => attempts[k] = 0
    /\ pc # "exit0"
    /\ Len(results.errors) < crashedAt

\* ---------------------------------------------------------------------------
\* C11: pre-flight validation precedes any browser interaction. The browser
\* is launched only when something to send was given, message and messageFile
\* were not both given, delayMin <= delayMax, the contacts file exists, the
\* message file, the image and the video exist when given, and at least one
\* identifier was loaded; when one of these fails the process exits non-zero
\* and never launches, navigates or sends.
Given(option) == option # Undefined /\ option # ""

OnDisk(option) == Resolved[option] \in DOMAIN FileContent

PreflightConditions ==
  /\ Given(argv.message) \/ Given(argv.messageFile)
       \/ Given(argv.image) \/ Given(argv.video)
  /\ ~(Given(argv.message) /\ Given(argv.messageFile))
  /\ argv.delayMin <= argv.delayMax
  /\ OnDisk(argv.excel)
  /\ (Given(argv.messageFile) => OnDisk(argv.messageFile))
  /\ (Given(argv.image) => OnDisk(argv.image))
  /\ (Given(argv.video) => OnDisk(argv.video))
  /\ Len(readExcelPhones(sheet, argv.countryCode)) > 0

C11_PreflightPrecedesBrowser ==
  /\ (launched \/ connected \/ pc \notin {"start", "exit1"}) => PreflightConditions
  /\ ~PreflightConditions =>
       /\ pc \in {"start", "exit1"}
       /\ ~launched /\ ~connected
       /\ steps = <<>> /\ history = <<>> /\ submits = 0 /\ sleeps = 0
       /\ summary = <<>>

C11_Witness ==
  /\ pc = "exit1" /\ ~launched
  /\ argv.video = "nofile.mp4" /\ Given(argv.message)
  /\ Len(readExcelPhones(sheet, argv.countryCode)) > 0

\* ---------------------------------------------------------------------------
\* normalizePhone applied on its own, to every raw cell of at most MaxRawLen
\* characters and to the numbers of the specification's examples.
RawAlphabet == {"5", "9", "+", "d", "a", "\\", "-"}

RECURSIVE Strings(_, _)
Strings(alphabet, n) ==
  IF n = 0 THEN {<<>>}
  ELSE LET shorter == Strings(alphabet, n - 1)
       IN  shorter \cup { Append(w, c) : w \in shorter, c \in alphabet }

LongRaw ==
  { <<"5", "5", "5", "0", "1", "0", "0", "0">>,
    <<"+", "1", "5", "5", "5", "0", "1", "0", "0">>,
    <<"9", "1", "5", "5", "5", "0", "1", "0", "0", "0", "1", "2", "3">>,
    <<"d", "d", "d", "d", "d", "d", "d", "d", "d", "d", "d", "d">> }

CountryCodes == {<<>>, <<"9">>, <<"9", "1">>}

\* The main program does not run in the specifications of the helpers.
HelperOnly(at) ==
  /\ argv = CHOOSE a \in ArgvCases : a.excel = "nofile.xlsx"
  /\ sheet = <<>>
  /\ pc = at
  /\ Blank

InitNorm ==
  /\ HelperOnly("normalizePhone")
  /\ fin \in [raw: Strings(RawAlphabet, MaxRawLen) \cup LongRaw, countryCode: CountryCodes]
  /\ fout = <<>>

Normalize ==
  /\ pc = "normalizePhone"
  /\ pc' = "returned"
  /\ fout' = <<normalizePhone(fin.raw, fin.countryCode)>>
  /\ UNCHANGED <<config, connected, crashedAt, jobv, waitv, readySeen, aux, fin>>

NextNorm == Normalize

SpecNorm == InitNorm /\ [][NextNorm]_vars

Digit == {"0", "1", "2", "3", "4", "5", "6", "7", "8", "9"}

IsDigit(c) == c \in Digit

\* C12: the normalizer returns null or a non-empty string of digits only, and
\* it returns null for every input that contains no digit.
C12_NormalizerOutput ==
  pc = "returned" =>
    /\ fout[1] = Null
         \/ (fout[1] # <<>> /\ \A k \in DOMAIN fout[1] : IsDigit(fout[1][k]))
    /\ SelectSeq(fin.raw, IsDigit) = <<>> => fout[1] = Null

\* The normalizer of the specification (section 4.1): keep the digits and a
\* leading '+'; null when nothing is left; with a leading '+' the digits as
\* they are; else the country code is prepended to a number of at most 11
\* digits that does not start with it; else the digits as they are.
IsDigitOrPlus(c) == c = "+" \/ IsDigit(c)

normalizeRef(raw, countryCode) ==
  LET stripped == SelectSeq(raw, IsDigitOrPlus)
      digits == SelectSeq(raw, IsDigit)
  IN  IF digits = <<>> THEN Null
      ELSE IF StartsWith(stripped, <<"+">>) THEN digits
      ELSE IF countryCode # <<>> /\ ~StartsWith(digits, countryCode)
                /\ Len(digits) <= LocalMaxLen
           THEN countryCode \o digits
           ELSE digits

\* C13: the normalizer follows the case rules of the specification: for every
\* input that contains a digit its result is the result of the reference
\* normalizer.
C13_NormalizerCaseRules ==
  pc = "returned" /\ SelectSeq(fin.raw, IsDigit) # <<>> =>
    fout[1] = normalizeRef(fin.raw, fin.countryCode)

\* ---------------------------------------------------------------------------
\* readExcelPhones applied on its own, to every sheet of at most MaxRows rows
\* of these shapes: the four column names, a column found after another
\* column, two phone columns, a blank cell, a cell of digits, and rows without
\* a phone column (first cell taken).
RowShapes ==
  { << <<"phone", <<"+", "1">> >> >>,
    << <<"Phone", <<"d">> >> >>,
    << <<"number", <<"+", "-">> >> >>,
    << <<"Number", <<>> >> >>,
    << <<"name", <<"B", "o", "b">> >>, <<"phone", <<"\\", "d">> >> >>,
    << <<"Phone", <<"d">> >>, <<"phone", <<"+">> >> >>,
    << <<"phone", <<"5", "5", "5">> >> >>,
    << <<"mobile", <<"d", "+">> >>, <<"name", <<"d">> >> >> }

RECURSIVE Sheets(_)
Sheets(n) ==
  IF n = 0 THEN {<<>>}
  ELSE Sheets(n - 1) \cup { Append(rows, r) : rows \in Sheets(n - 1), r \in RowShapes }

InitLoad ==
  /\ HelperOnly("readExcelPhones")
  /\ fin \in [rows: Sheets(MaxRows), countryCode: {<<>>, <<"9", "1">>}]
  /\ fout = <<>>

Load ==
  /\ pc = "readExcelPhones"
  /\ pc' = "loaded"
  /\ fout' = <<readExcelPhones(fin.rows, fin.countryCode)>>
  /\ UNCHANGED <<config, connected, crashedAt, jobv, waitv, readySeen, aux, fin>>

NextLoad == Load

SpecLoad == InitLoad /\ [][NextLoad]_vars

\* The normalized value of the selected cell of each row.
RowValues ==
  [k \in DOMAIN fin.rows |-> normalizePhone(selectedCell(fin.rows[k]), fin.countryCode)]

FirstRowOf(v) == CHOOSE k \in DOMAIN RowValues :
                   RowValues[k] = v /\ \A j \in 1 .. k - 1 : RowValues[j] # v

\* C14: the loaded list has no duplicate, holds exactly the non-null
\* normalized values of the rows' selected cells, in the order of their first
\* occurrence; rows added after an entry never move or replace it.
C14_LoaderOutput ==
  pc = "loaded" =>
    LET out == fout[1] IN
    /\ \A a, b \in DOMAIN out : out[a] = out[b] => a = b
    /\ { out[a] : a \in DOMAIN out } =
         { RowValues[k] : k \in DOMAIN RowValues } \ {Null}
    /\ \A a, b \in DOMAIN out : a < b => FirstRowOf(out[a]) < FirstRowOf(out[b])
    /\ \A n \in 0 .. Len(fin.rows) :
         IsPrefix(readExcelPhones(SubSeq(fin.rows, 1, n), fin.countryCode), out)

C14_Witness ==
  /\ pc = "loaded"
  /\ Len(fin.rows) = 3 /\ Len(fout[1]) = 2
  /\ RowValues[1] # Null /\ RowValues[3] = RowValues[1]

\* ---------------------------------------------------------------------------
\* C15: no partial retry and early abort within a job. A step is invoked only
\* inside the try block and at most once per job; once a step has thrown, no
\* further step is invoked, nothing more is typed and submit is not activated
\* until the loop moves on; the failure leaves the contact list and the loop
\* index as they are, so the next job is the next contact's.
StepNames == {"openChat", "attachFiles", "typeMultiline", "clickSend"}

JobThrew == pc = "catch" \/ (pc = "sleeping" /\ history[Len(history)].threw)

C15_NoPartialRetry ==
  [][ /\ steps' # steps =>
           \/ pc = "loop" /\ steps' = <<>>
           \/ /\ pc \in TryPcs
              /\ \E st \in StepNames : steps' = Append(steps, st) /\ ~Occurs(st, steps)
      /\ JobThrew =>
           /\ steps' = steps /\ submits' = submits /\ keys' = keys
           /\ numbers' = numbers /\ attempts' = attempts
           /\ pc' \in {"catch", "sleeping", "loop", "exit1"}
           /\ i' = IF pc' = "loop" THEN i + 1 ELSE i
      /\ submits' # submits =>
           /\ submits' = submits + 1
           /\ pc \in TryPcs /\ pc' = "sent"
           /\ steps[Len(steps)] = "clickSend"
    ]_vars

C15_Witness ==
  /\ pc = "sent" /\ i = 1
  /\ history[1].threw /\ results.errors[1].error = "Composer not found"
  /\ history[2].submitted /\ submits = 1
  /\ steps = <<"openChat", "attachFiles", "typeMultiline", "clickSend">>

\* ---------------------------------------------------------------------------
\* C16: attach failure modes. With files to attach, a job in which no preview
\* indicator appeared within the wait after the upload has thrown, is recorded
\* Failed and never reaches clickSend; so has a job in which the attach
\* control did not appear. Without files attachFiles is not entered.
C16_AttachFailureModes ==
  /\ (pc \in JobPcs /\ previewSeen = "no") =>
       JobThrew /\ ~Occurs("clickSend", steps)
  /\ (pc \in JobPcs /\ err = "Attach button not found") =>
       pc = "catch" /\ steps = <<"openChat", "attachFiles">>
  /\ (pc \in JobPcs /\ attachments = <<>>) =>
       ~Occurs("attachFiles", steps) /\ previewSeen = "unknown"

\* ---------------------------------------------------------------------------
\* C17: strictly sequential processing and pacing. The jobs are the contacts
\* in load order, each started once, one at a time; after each job exactly
\* one delay is slept, drawn between the success bounds after a job recorded
\* Sent and between BackoffBaseMs and BackoffBaseMs + BackoffJitterMs after a
\* job recorded Failed; while a job is inside its try block every earlier job
\* is in the ledger and no delay is running.
Least(a, b) == IF a <= b THEN a ELSE b
Greatest(a, b) == IF a <= b THEN b ELSE a

C17_SequentialPacing ==
  /\ \A k \in DOMAIN history : history[k].phone = numbers[k]
  /\ \A k \in Positions :
       attempts[k] = IF k <= i \/ (k = i + 1 /\ pc \in JobPcs) THEN 1 ELSE 0
  /\ sleeps = LedgerJobs
  /\ results.sent + results.failed = LedgerJobs
  /\ pc \in TryPcs =>
       /\ i < Len(numbers)
       /\ Len(history) = i
       /\ slept = -1
  /\ pc \in {"sent", "catch"} => Len(history) = i + 1 /\ slept = -1
  /\ pc = "sleeping" =>
       /\ Len(history) = i + 1
       /\ results.failed = Len(Thrown(i + 1))
       /\ IF history[i + 1].threw
          THEN /\ BackoffBaseMs <= slept
               /\ slept <= BackoffBaseMs + BackoffJitterMs
          ELSE /\ Least(minMs, maxMs) <= slept
               /\ slept <= Greatest(minMs, maxMs)
  /\ pc \notin JobPcs => slept = -1

C17_Witness ==
  /\ pc = "sleeping" /\ i = 1
  /\ ~history[1].threw /\ history[2].threw
  /\ slept = BackoffBaseMs + BackoffJitterMs \div RandDenom
  /\ results.sent = 1 /\ results.failed = 1

\* ---------------------------------------------------------------------------
\* typeMultiline applied on its own, to every text of at most MaxTextLen
\* characters, with the composer found (composer = 1) or not (composer = 0).
TextAlphabet == {"a", "b", "\r", "\n"}

InitType ==
  /\ HelperOnly("typeMultiline")
  /\ fin \in [text: Strings(TextAlphabet, MaxTextLen), composer: {0, 1}]
  /\ fout = <<>>

TypeMultiline ==
  /\ pc = "typeMultiline"
  /\ pc' = "typed"
  /\ fout' = IF fin.composer = 0
             THEN [threw |-> "Composer not found", keys |-> <<>>]
             ELSE [threw |-> "", keys |-> typeKeys(fin.text)]
  /\ UNCHANGED <<config, connected, crashedAt, jobv, waitv, readySeen, aux, fin>>

NextType == TypeMultiline

SpecType == InitType /\ [][NextType]_vars

SoftReturn == << <<"down", "Shift">>, <<"press", "Enter">>, <<"up", "Shift">> >>

IsTyping(call) == call[1] = "type"

\* The text a keyboard call sequence produces from call k on, a soft return
\* read as a line break; any other use of Enter or Shift is marked.
RECURSIVE Rebuild(_, _)
Rebuild(calls, k) ==
  IF k > Len(calls) THEN <<>>
  ELSE IF IsTyping(calls[k]) THEN Tail(calls[k]) \o Rebuild(calls, k + 1)
  ELSE IF k + 2 <= Len(calls) /\ SubSeq(calls, k, k + 2) = SoftReturn
       THEN <<"\n">> \o Rebuild(calls, k + 3)
       ELSE <<"<plain key>">>

LineBreaks(text) == Len(SelectSeq(text, LAMBDA c : c = "\n"))

\* C18: typeMultiline types the non-empty lines of the text in order, one
\* keyboard.type call per line, makes exactly one Shift+Enter sequence per
\* line break (n - 1 for n lines, none after the last line) and no Enter
\* outside Shift; read back with line breaks for the soft returns the calls
\* give the text. Without a composer it throws and makes no keyboard call.
C18_LineEmission ==
  pc = "typed" =>
    IF fin.composer = 0
    THEN fout.threw = "Composer not found" /\ fout.keys = <<>>
    ELSE /\ fout.threw = ""
         /\ Rebuild(fout.keys, 1) = fin.text
         /\ Len(SelectSeq(fout.keys, LAMBDA c : c = <<"press", "Enter">>))
              = LineBreaks(fin.text)
         /\ SelectSeq(fout.keys, IsTyping)
              = SelectSeq([k \in DOMAIN split(fin.text) |-> <<"type">> \o split(fin.text)[k]],
                          LAMBDA c : Len(c) > 1)
         /\ \A k \in DOMAIN fout.keys :
              IsTyping(fout.keys[k]) =>
                /\ Len(fout.keys[k]) > 1
                /\ \A j \in 2 .. Len(fout.keys[k]) : fout.keys[k][j] # "\n"
                /\ k < Len(fout.keys) => ~IsTyping(fout.keys[k + 1])

C18_Witness ==
  /\ pc = "typed" /\ fin.composer = 1
  /\ fin.text = <<"a", "\n", "\n", "b">>
  /\ fout.keys = << <<"type", "a">> >> \o SoftReturn \o SoftReturn \o << <<"type", "b">> >>

\* ---------------------------------------------------------------------------
\* C19: no duplicate sends. Whatever rows repeat in the sheet and whichever
\* steps fail, the send control is clicked at most once for each identifier,
\* and the number of clicks never exceeds the number of loaded contacts.
Submitted == { k \in DOMAIN history : history[k].submitted }

C19_NoDuplicateSends ==
  /\ \A a, b \in Submitted : history[a].phone = history[b].phone => a = b
  /\ submits = Cardinality(Submitted)
  /\ submits <= Len(numbers)
  /\ \A k \in Submitted : \E r \in DOMAIN sheet :
       normalizePhone(selectedCell(sheet[r]), argv.countryCode) = history[k].phone

C19_Witness ==
  /\ pc = "exit0"
  /\ Len(sheet) > Len(numbers)
  /\ submits = Len(numbers) /\ submits > 1
  /\ \E a, b \in DOMAIN sheet :
       a # b /\ selectedCell(sheet[a]) # selectedCell(sheet[b])
         /\ normalizePhone(selectedCell(sheet[a]), argv.countryCode)
              = normalizePhone(selectedCell(sheet[b]), argv.countryCode)

====
